---- MODULE Spec2Model ----
(***************************************************************************)
(* A model of the tiktok-quotes pipeline: the history store                *)
(* (src/src/history.py), the two exclusion-aware selectors                 *)
(* (src/src/quote_fetcher.py, src/src/video_fetcher.py), the driver        *)
(* (src/main.py), the greedy word wrap and the block geometry of the text  *)
(* overlay (src/src/video_composer.py) and the upload flow                 *)
(* (src/src/tiktok_poster.py).                                             *)
(*                                                                         *)
(* Quote contents are modelled as natural numbers (the identity used for   *)
(* deduplication is the exact content string, so only equality matters);   *)
(* clip ids are the integers the catalog returns.                          *)
(***************************************************************************)
EXTENDS Integers, Sequences, FiniteSets, TLC

(* ------------------------------ bounds -------------------------------- *)
\* number of distinct quote contents the quote catalog can deliver
NQuotes == 4
\* number of distinct clip ids the clip catalog can deliver
NClips == 3
\* length of the longest quote text handed to _wrap_to_width
MaxTextLen == 6

(* ------------------------- program constants -------------------------- *)
MAX_ENTRIES == 365
MAX_ATTEMPTS_QUOTE == 10
MAX_ATTEMPTS_VIDEO == 5
VIDEOS_PER_DAY == 3
max_text_w == 680

VARIABLES
  file,              \* history.json on disk
  pc,                \* position of the current run in main()
  env,               \* process environment of the current run
  history,           \* main's in-memory history dict
  i,                 \* main's loop variable
  quote,             \* content of the quote fetch_quote returned
  video_id,          \* id fetch_video returned
  quotes,            \* main's list of the quotes used in this run
  video_ids,         \* ids of the clips used in this run
  attempt,           \* loop variable of the selector being executed
  fetches,           \* requests.get calls made by the fetch_quote call that is
                     \* in progress or has just returned or raised
  searches,          \* catalog searches made by the fetch_video call that is
                     \* in progress or has just returned or raised
  lastResp,          \* what the last catalog call of that selector delivered
  err,               \* the exception that ended the run, if any
  saves,             \* history_store.save calls executed in this run
  posted,            \* videos handed to post_video in this run
  text,              \* _wrap_to_width's argument, a sequence of characters
  font,              \* the font whose metrics measure the lines
  words,             \* text.split()
  widx,              \* index in words of the loop's next word
  current,           \* the words of the line being built
  lines,             \* the lines closed so far
  wpc,               \* position in _wrap_to_width
  access_token,      \* os.environ.get("TIKTOK_ACCESS_TOKEN") in post_video
  open_id,           \* os.environ.get("TIKTOK_OPEN_ID")
  client_key,        \* os.environ.get("TIKTOK_CLIENT_KEY")
  chunk_count,       \* post_video's number of chunks
  chunk_idx,         \* chunks uploaded so far
  poll_attempt,      \* status polls that have asked for another poll
  requests,          \* HTTP requests post_video has sent
  status,            \* the status the last poll reported
  post_result,       \* what post_video returned, or that it raised
  ppc,               \* position in post_video
  line_heights,      \* _make_text_overlay: the heights of the quote lines
  author_h,          \* the height of the author line
  block_h,           \* the computed height of the text block
  y,                 \* the drawing position
  lidx,              \* index of the next line the drawing loop draws
  line_ys,           \* where the quote lines were drawn
  author_y,          \* where the author line was drawn
  lpc,               \* position in _make_text_overlay
  qstream,           \* the quotes the catalog delivers, fetch by fetch
  vstream            \* the clip batches the catalog delivers, search by search

mainVars == <<file, pc, env, history, i, quote, video_id, quotes, video_ids,
              attempt, fetches, searches, lastResp, err, saves, posted>>

wrapVars == <<text, font, words, widx, current, lines, wpc>>

postVars == <<access_token, open_id, client_key, chunk_count, chunk_idx,
              poll_attempt, requests, status, post_result, ppc>>

layoutVars == <<line_heights, author_h, block_h, y, lidx, line_ys, author_y,
                lpc>>

selVars == <<qstream, vstream>>

vars == <<mainVars, wrapVars, postVars, layoutVars, selVars>>

(* ------------------------------ helpers ------------------------------- *)
Range(s) == {s[k] : k \in 1..Len(s)}

Min(a, b) == IF a <= b THEN a ELSE b

\* Python's s[-n:] for n > 0
LastN(s, n) == IF Len(s) <= n THEN s ELSE SubSeq(s, Len(s) - n + 1, Len(s))

QuoteContents == 1..NQuotes
ClipIds == 1..NClips

\* an entry written by a run long ago: never delivered by the catalogs
OldEntry(k) == NQuotes + NClips + k

(* ------------------------ src/src/history.py -------------------------- *)
EmptyHistory == [quotes |-> <<>>, videos |-> <<>>]

\* the file as a JSON object holding the given keys
JsonObject(keys, qs, vs) ==
  [kind |-> "dict", keys |-> keys, quotes |-> qs, videos |-> vs]

MissingFile == [kind |-> "missing", keys |-> {}, quotes |-> <<>>, videos |-> <<>>]
\* a file that is not parseable as JSON (json.load raises JSONDecodeError)
GarbageFile == [kind |-> "garbage", keys |-> {}, quotes |-> <<>>, videos |-> <<>>]
\* parseable JSON that is no object, e.g. [] (data.get raises AttributeError)
NonDictFile == [kind |-> "nondict", keys |-> {}, quotes |-> <<>>, videos |-> <<>>]

\* data.get(key, [])
DataGet(f, key) ==
  IF key \in f.keys THEN (IF key = "quotes" THEN f.quotes ELSE f.videos) ELSE <<>>

\* a load that forgets the file
load_ignores_file(f) == [raised |-> f.kind \notin {"missing", "dict"}, history |-> EmptyHistory]

load(f) ==
  IF f.kind = "missing"
  THEN [raised |-> FALSE, history |-> EmptyHistory]
  ELSE IF f.kind # "dict"
  THEN [raised |-> TRUE, history |-> EmptyHistory]
  ELSE [raised |-> FALSE,
        history |-> [quotes |-> DataGet(f, "quotes"),
                     videos |-> DataGet(f, "videos")]]

\* a save that slices [:MAX_ENTRIES] and so keeps the oldest entries
save_keeps_oldest(h) ==
  JsonObject({"quotes", "videos"},
             SubSeq(h.quotes, 1, Min(Len(h.quotes), MAX_ENTRIES)),
             SubSeq(h.videos, 1, Min(Len(h.videos), MAX_ENTRIES)))

save(h) ==
  JsonObject({"quotes", "videos"},
             LastN(h.quotes, MAX_ENTRIES), LastN(h.videos, MAX_ENTRIES))

\* a quote_seen that finds nothing
quote_seen_never(h, content) == FALSE

quote_seen(h, content) == content \in Range(h.quotes)

\* a video_seen that looks the id up in the wrong list
video_seen_in_quotes(h, id) == id \in Range(h.quotes)

video_seen(h, id) == id \in Range(h.videos)

\* a record that forgets the clip id
record_quote_only(h, quote_content, id) ==
  [quotes |-> Append(h.quotes, quote_content), videos |-> h.videos]

\* a record that appends to a copy and leaves the history as it was
record_nothing(h, quote_content, id) == h

record(h, quote_content, id) ==
  [quotes |-> Append(h.quotes, quote_content), videos |-> Append(h.videos, id)]


(* ----------------------- uncaught exceptions -------------------------- *)
\* nothing in main() catches: an exception ends the process, and with it
\* main's locals (the in-memory history included) are gone
Exit(e) ==
  /\ pc' = "failed"
  /\ err' = e
  /\ history' = EmptyHistory
  /\ i' = 1
  /\ quote' = 0
  /\ video_id' = 0
  /\ quotes' = <<>>
  /\ video_ids' = <<>>
  /\ attempt' = 1
  /\ posted' = 0

(* --------------------- src/src/quote_fetcher.py ----------------------- *)
\* what one requests.get(ZENQUOTES_URL) can deliver: a failed call, a payload
\* that is no list of {"q", "a"} objects, an empty list, or one quote
QuoteResponses ==
  [kind : {"http_error", "malformed", "empty"}, content : {0}]
    \cup [kind : {"quote"}, content : QuoteContents]

\* one pass through the body of fetch_quote's loop
FetchQuoteAttempt(resp) ==
  /\ pc = "fetch_quote"
  /\ fetches' = fetches + 1
  /\ IF resp.kind # "quote"
     THEN \* any exception inside the try block is re-raised as RuntimeError
          /\ lastResp' = resp.kind
          /\ Exit("quote_upstream")
     ELSE IF ~quote_seen(history, resp.content)
     THEN /\ lastResp' = "fresh"
          /\ quote' = resp.content
          /\ pc' = "fetch_video"
          /\ attempt' = 1
          /\ UNCHANGED <<err, history, i, video_id, quotes, video_ids, posted>>
     ELSE /\ lastResp' = "collision"
          /\ IF attempt < MAX_ATTEMPTS_QUOTE
             THEN /\ attempt' = attempt + 1
                  /\ UNCHANGED <<pc, err, history, i, quote, video_id, quotes,
                                 video_ids, posted>>
             ELSE Exit("quote_exhausted")
  /\ UNCHANGED <<file, env, searches, saves>>
  /\ UNCHANGED <<wrapVars, postVars, layoutVars, selVars>>

(* --------------------- src/src/video_fetcher.py ----------------------- *)
\* the video_files lists a catalog entry can carry
FileLists ==
  { <<>>,
    << [width |-> 1920, height |-> 1080] >>,
    << [width |-> 1920, height |-> 1080], [width |-> 720, height |-> 1280],
       [width |-> 1080, height |-> 1920] >> }

portrait_files(all_files) ==
  SelectSeq(all_files, LAMBDA f : f.height > f.width)

\* the list that is sorted by height; sorting does not change its length
candidates(all_files) ==
  IF portrait_files(all_files) # <<>> THEN portrait_files(all_files) ELSE all_files

\* [v for v in videos if not video_seen(history, v["id"])]
fresh(h, videos) == {id \in videos : ~video_seen(h, id)}

\* api_key check at the head of fetch_video
FetchVideoNoKey ==
  /\ pc = "fetch_video"
  /\ searches = 0
  /\ ~env.PEXELS_API_KEY
  /\ Exit("no_api_key")
  /\ UNCHANGED <<file, env, fetches, searches, lastResp, saves>>
  /\ UNCHANGED <<wrapVars, postVars, layoutVars, selVars>>

\* a loop whose budget is one search too long
VideoContinueOneMore(kind) ==
  /\ lastResp' = kind
  /\ IF attempt <= MAX_ATTEMPTS_VIDEO
     THEN /\ attempt' = attempt + 1
          /\ UNCHANGED <<pc, err, history, i, quote, video_id, quotes,
                         video_ids, posted>>
     ELSE Exit("video_exhausted")

\* the loop of fetch_video ends an attempt with "continue"
VideoContinue(kind) ==
  /\ lastResp' = kind
  /\ IF attempt < MAX_ATTEMPTS_VIDEO
     THEN /\ attempt' = attempt + 1
          /\ UNCHANGED <<pc, err, history, i, quote, video_id, quotes,
                         video_ids, posted>>
     ELSE Exit("video_exhausted")

\* a fetch_video that treats a failed call like an empty batch
VideoRaiseRetried(kind) ==
  /\ lastResp' = kind
  /\ IF attempt < MAX_ATTEMPTS_VIDEO
     THEN /\ attempt' = attempt + 1
          /\ UNCHANGED <<pc, err, history, i, quote, video_id, quotes,
                         video_ids, posted>>
     ELSE Exit("video_exhausted")

VideoRaise(kind) ==
  /\ lastResp' = kind
  /\ Exit("video_upstream")

\* what one search of the Pexels catalog can deliver: a failed call, a
\* payload that is no JSON object of entries with ids, or a batch of entries
\* (here the set of their ids; an empty batch when "videos" is empty or absent)
VideoResponses ==
  [kind : {"http_error", "malformed"}, videos : {{}}]
    \cup [kind : {"batch"}, videos : SUBSET ClipIds]

\* one pass through the body of fetch_video's loop; the \E are random.choice's
\* pick among the fresh entries, the video_files the picked entry carries and
\* how the download of the chosen file ends
FetchVideoAttempt(resp) ==
  /\ pc = "fetch_video"
  /\ env.PEXELS_API_KEY
  /\ searches' = searches + 1
  /\ fetches' = 0
  /\ IF resp.kind # "batch"
     THEN VideoRaise(resp.kind)
     ELSE IF resp.videos = {}
     THEN VideoContinue("empty")
     ELSE IF fresh(history, resp.videos) = {}
     THEN VideoContinue("collision")
     ELSE \E pick \in fresh(history, resp.videos), all_files \in FileLists :
            IF candidates(all_files) = <<>>
            THEN VideoContinue("no_variant")
            ELSE \E download \in {"ok", "error"} :
                   IF download # "ok"
                   THEN VideoRaise("download_error")
                   ELSE /\ lastResp' = "fresh"
                        /\ video_id' = pick
                        /\ pc' = "compose"
                        /\ UNCHANGED <<err, history, i, quote, quotes,
                                       video_ids, attempt, posted>>
  /\ UNCHANGED <<file, env, saves>>
  /\ UNCHANGED <<wrapVars, postVars, layoutVars, selVars>>

(* ---------------------------- src/main.py ----------------------------- *)
\* the environments main() can be started in
Environments == [PEXELS_API_KEY : BOOLEAN]

\* main() up to the loop: a new process loads the history file
StartRun(e) ==
  /\ pc \in {"idle", "done", "failed"}
  /\ env' = e
  /\ fetches' = 0
  /\ searches' = 0
  /\ lastResp' = "none"
  /\ saves' = 0
  /\ IF load(file).raised
     THEN Exit("load")
     ELSE /\ history' = load(file).history
          /\ pc' = "fetch_quote"
          /\ err' = "none"
          /\ i' = 1
          /\ quote' = 0
          /\ video_id' = 0
          /\ quotes' = <<>>
          /\ video_ids' = <<>>
          /\ attempt' = 1
          /\ posted' = 0
  /\ UNCHANGED file
  /\ UNCHANGED <<wrapVars, postVars, layoutVars, selVars>>

\* compose_video for iteration i and, when it returns, the rest of the loop
\* body: record, the two appends and the step to the next iteration
Compose(ok) ==
  /\ pc = "compose"
  /\ IF ~ok
     THEN /\ Exit("compose")
          /\ UNCHANGED <<searches, lastResp>>
     ELSE /\ history' = record(history, quote, video_id)
          /\ quotes' = Append(quotes, quote)
          /\ video_ids' = Append(video_ids, video_id)
          /\ i' = IF i < VIDEOS_PER_DAY THEN i + 1 ELSE i
          /\ pc' = IF i < VIDEOS_PER_DAY THEN "fetch_quote" ELSE "email"
          /\ attempt' = 1
          /\ searches' = 0
          /\ lastResp' = "none"
          /\ UNCHANGED <<err, quote, video_id, posted>>
  /\ UNCHANGED <<file, env, fetches, saves>>
  /\ UNCHANGED <<wrapVars, postVars, layoutVars, selVars>>

\* a main() that saves the history before it sends the email
EmailAfterSave(outcome) ==
  /\ pc = "email"
  /\ file' = save(history)
  /\ saves' = saves + 1
  /\ IF outcome = "raised"
     THEN Exit("email")
     ELSE /\ pc' = "post"
          /\ UNCHANGED <<err, history, i, quote, video_id, quotes, video_ids,
                         attempt, posted>>
  /\ UNCHANGED <<env, fetches, searches, lastResp>>
  /\ UNCHANGED <<wrapVars, postVars, layoutVars, selVars>>

\* send_daily_videos: True (sent), False (SendGrid not configured) or raises;
\* main ignores the returned value
Email(outcome) ==
  /\ pc = "email"
  /\ IF outcome = "raised"
     THEN Exit("email")
     ELSE /\ pc' = "post"
          /\ UNCHANGED <<err, history, i, quote, video_id, quotes, video_ids,
                         attempt, posted>>
  /\ UNCHANGED <<file, env, fetches, searches, lastResp, saves>>
  /\ UNCHANGED <<wrapVars, postVars, layoutVars, selVars>>

\* one pass of the posting loop: post_video returns True (published) or
\* False (stub mode), both ignored by main, or raises
Post(outcome) ==
  /\ pc = "post"
  /\ IF outcome = "raised"
     THEN Exit("post")
     ELSE /\ posted' = posted + 1
          /\ pc' = IF posted + 1 < Len(quotes) THEN "post" ELSE "save"
          /\ UNCHANGED <<err, history, i, quote, video_id, quotes, video_ids,
                         attempt>>
  /\ UNCHANGED <<file, env, fetches, searches, lastResp, saves>>
  /\ UNCHANGED <<wrapVars, postVars, layoutVars, selVars>>

\* history_store.save(history) and the end of main(); when the write fails
\* the file is either untouched (open failed) or left truncated
Save(outcome) ==
  /\ pc = "save"
  /\ saves' = saves + 1
  /\ IF outcome = "ok"
     THEN /\ file' = save(history)
          /\ pc' = "done"
          /\ UNCHANGED <<err, history, i, quote, video_id, quotes, video_ids,
                         attempt, posted>>
     ELSE /\ file' = IF outcome = "open_failed" THEN file ELSE GarbageFile
          /\ Exit("save")
  /\ UNCHANGED <<env, fetches, searches, lastResp>>
  /\ UNCHANGED <<wrapVars, postVars, layoutVars, selVars>>

(* -------------------- src/src/video_composer.py ----------------------- *)
\* the characters of a quote text: a blank, a narrow and a wide letter
Alphabet == {" ", "i", "W"}

Fonts == {"condensed", "bold"}

\* advance width of one character
CharWidth(f, c) ==
  IF f = "bold"
  THEN (IF c = "W" THEN 400 ELSE IF c = "i" THEN 150 ELSE 100)
  ELSE (IF c = "W" THEN 200 ELSE IF c = "i" THEN 80 ELSE 60)

RECURSIVE SumWidths(_, _)
SumWidths(f, str) ==
  IF str = <<>> THEN 0 ELSE CharWidth(f, Head(str)) + SumWidths(f, Tail(str))

\* bbox[2] - bbox[0] of draw.textbbox((0, 0), str, font=f)
Measure(f, str) == SumWidths(f, str)

RECURSIVE SplitAcc(_, _, _)
SplitAcc(str, word, acc) ==
  IF str = <<>>
  THEN (IF word = <<>> THEN acc ELSE Append(acc, word))
  ELSE IF Head(str) = " "
  THEN SplitAcc(Tail(str), <<>>, IF word = <<>> THEN acc ELSE Append(acc, word))
  ELSE SplitAcc(Tail(str), Append(word, Head(str)), acc)

\* str.split(): the maximal runs of non-blank characters, in order
split(str) == SplitAcc(str, <<>>, <<>>)

RECURSIVE join(_)
\* " ".join(ws)
join(ws) ==
  IF ws = <<>> THEN <<>>
  ELSE IF Len(ws) = 1 THEN ws[1]
  ELSE ws[1] \o <<" ">> \o join(Tail(ws))

\* a wrap that measures the new word alone
test_word_only(cur, word) == word

\* test = " ".join(current + [word])
test_line(cur, word) == join(Append(cur, word))

\* one pass through the body of _wrap_to_width's loop
WrapWord ==
  /\ wpc = "loop"
  /\ widx <= Len(words)
  /\ LET word == words[widx]
     IN IF Measure(font, test_line(current, word)) <= max_text_w
        THEN /\ current' = Append(current, word)
             /\ UNCHANGED lines
        ELSE /\ lines' = IF current # <<>> THEN Append(lines, join(current))
                         ELSE lines
             /\ current' = <<word>>
  /\ widx' = widx + 1
  /\ UNCHANGED <<text, font, words, wpc>>
  /\ UNCHANGED <<mainVars, postVars, layoutVars, selVars>>

\* a wrap that returns without closing the line it was building
WrapReturnNoFlush ==
  /\ wpc = "loop"
  /\ widx > Len(words)
  /\ wpc' = "done"
  /\ UNCHANGED <<text, font, words, widx, current, lines>>
  /\ UNCHANGED <<mainVars, postVars, layoutVars, selVars>>

\* the end of the loop: the last line is closed and lines is returned
WrapReturn ==
  /\ wpc = "loop"
  /\ widx > Len(words)
  /\ lines' = IF current # <<>> THEN Append(lines, join(current)) ELSE lines
  /\ wpc' = "done"
  /\ UNCHANGED <<text, font, words, widx, current>>
  /\ UNCHANGED <<mainVars, postVars, layoutVars, selVars>>

(* ------------- src/src/video_composer.py: block geometry -------------- *)
MaxLines == 3

H == 1920

line_spacing == 16

gap == 28

pad_y == 60

\* textbbox(...)[3] of a quote line: lines with and without descenders
LineHeights == {46, 58}

\* the height of the author line's bounding box
AuthorHeights == {30, 40}

RECURSIVE sum(_)
sum(s) == IF s = <<>> THEN 0 ELSE Head(s) + sum(Tail(s))

total_quote_h(hs) == sum(hs) + line_spacing * (Len(hs) - 1)

\* int(H * 0.38)
center_y == (H * 38) \div 100

box_top == center_y - block_h \div 2 - pad_y

box_bottom == center_y + block_h \div 2 + pad_y

\* the block height is computed and the drawing position set to its top
LayoutGeometry ==
  /\ lpc = "geometry"
  /\ block_h' = total_quote_h(line_heights) + gap + author_h
  /\ y' = center_y - block_h' \div 2
  /\ lidx' = 1
  /\ lpc' = "draw"
  /\ UNCHANGED <<line_heights, author_h, line_ys, author_y>>
  /\ UNCHANGED <<mainVars, wrapVars, postVars, selVars>>

\* one pass of the drawing loop
DrawLine ==
  /\ lpc = "draw"
  /\ lidx <= Len(line_heights)
  /\ line_ys' = Append(line_ys, y)
  /\ y' = y + line_heights[lidx] + line_spacing
  /\ lidx' = lidx + 1
  /\ UNCHANGED <<line_heights, author_h, block_h, author_y, lpc>>
  /\ UNCHANGED <<mainVars, wrapVars, postVars, selVars>>

\* the author line is drawn below the gap
DrawAuthor ==
  /\ lpc = "draw"
  /\ lidx > Len(line_heights)
  /\ y' = y + gap
  /\ author_y' = y'
  /\ lpc' = "done"
  /\ UNCHANGED <<line_heights, author_h, block_h, lidx, line_ys>>
  /\ UNCHANGED <<mainVars, wrapVars, postVars, selVars>>

(* --------------------- src/src/tiktok_poster.py ----------------------- *)
MaxChunks == 2

CHUNK_SIZE == 10 * 1024 * 1024

POLL_ATTEMPTS == 10

\* what os.environ.get delivers: None, the empty string (an unset secret of
\* the workflow) or a value
EnvValues == {"None", "", "value"}

\* Python's truth value of what os.environ.get delivered
Truthy(v) == v \notin {"None", ""}

\* the sizes in bytes of the video file
FileSizes ==
  {0} \cup {k * CHUNK_SIZE + d : k \in 0..(MaxChunks - 1), d \in {1, CHUNK_SIZE}}

\* math.ceil(file_size / CHUNK_SIZE)
ChunkCount(file_size) == (file_size + CHUNK_SIZE - 1) \div CHUNK_SIZE

\* the check that decides between stub mode and the upload
credentials == Truthy(access_token) /\ Truthy(open_id)

PostReturn(r) ==
  /\ post_result' = r
  /\ ppc' = "done"

\* stub mode: the instructions are printed and False is returned
PostStub ==
  /\ ppc = "entry"
  /\ ~credentials
  /\ PostReturn("False")
  /\ UNCHANGED <<access_token, open_id, client_key, chunk_count, chunk_idx,
                 poll_attempt, requests, status>>
  /\ UNCHANGED <<mainVars, wrapVars, layoutVars, selVars>>

\* the credentials are there: the file is measured; os.path.getsize raises
\* when there is no file (exists = FALSE)
PostMeasure(exists, file_size) ==
  /\ ppc = "entry"
  /\ credentials
  /\ IF exists
       THEN /\ chunk_count' = ChunkCount(file_size)
            /\ ppc' = "init"
            /\ UNCHANGED post_result
       ELSE /\ PostReturn("raised")
            /\ UNCHANGED chunk_count
  /\ UNCHANGED <<access_token, open_id, client_key, chunk_idx, poll_attempt,
                 requests, status>>
  /\ UNCHANGED <<mainVars, wrapVars, layoutVars, selVars>>

InitResponses == {"ok", "http_error", "missing_fields"}

\* 1. the init request
PostInit(resp) ==
  /\ ppc = "init"
  /\ requests' = requests + 1
  /\ IF resp = "ok"
       THEN /\ ppc' = IF chunk_count = 0 THEN "poll" ELSE "upload"
            /\ UNCHANGED post_result
       ELSE PostReturn("raised")
  /\ UNCHANGED <<access_token, open_id, client_key, chunk_count, chunk_idx,
                 poll_attempt, status>>
  /\ UNCHANGED <<mainVars, wrapVars, layoutVars, selVars>>

\* 2. one PUT of the chunk loop
PostChunk(ok) ==
  /\ ppc = "upload"
  /\ chunk_idx < chunk_count
  /\ requests' = requests + 1
  /\ IF ok
       THEN /\ chunk_idx' = chunk_idx + 1
            /\ ppc' = IF chunk_idx + 1 = chunk_count THEN "poll" ELSE "upload"
            /\ UNCHANGED post_result
       ELSE /\ PostReturn("raised")
            /\ UNCHANGED chunk_idx
  /\ UNCHANGED <<access_token, open_id, client_key, chunk_count, poll_attempt,
                 status>>
  /\ UNCHANGED <<mainVars, wrapVars, layoutVars, selVars>>

PollResponses ==
  {"http_error", "PUBLISH_COMPLETE", "FAILED", "SPAM_RISK_TOO_MANY_POSTS",
   "PROCESSING_UPLOAD", "UNKNOWN"}

\* the status that ends the polling with success
PollComplete(resp) == resp = "PUBLISH_COMPLETE"

\* 3. one status poll; the poll that uses up the budget raises the timeout
PostPoll(resp) ==
  /\ ppc = "poll"
  /\ poll_attempt < POLL_ATTEMPTS
  /\ requests' = requests + 1
  /\ status' = IF resp = "http_error" THEN status ELSE resp
  /\ IF PollComplete(resp)
       THEN /\ PostReturn("True")
            /\ UNCHANGED poll_attempt
       ELSE IF resp \in {"http_error", "FAILED", "SPAM_RISK_TOO_MANY_POSTS"}
       THEN /\ PostReturn("raised")
            /\ UNCHANGED poll_attempt
       ELSE /\ poll_attempt' = poll_attempt + 1
            /\ IF poll_attempt + 1 = POLL_ATTEMPTS
                 THEN PostReturn("raised")
                 ELSE UNCHANGED <<post_result, ppc>>
  /\ UNCHANGED <<access_token, open_id, client_key, chunk_count, chunk_idx>>
  /\ UNCHANGED <<mainVars, wrapVars, layoutVars, selVars>>

(* ------------------------- the specification -------------------------- *)
\* a full history file: the window holds all but VIDEOS_PER_DAY of the quotes
\* and clips the catalogs deliver (oldest first), then entries the catalogs
\* no longer deliver
OldFile ==
  JsonObject({"quotes", "videos"},
             [k \in 1..MAX_ENTRIES |->
                IF k <= NQuotes - VIDEOS_PER_DAY THEN k ELSE OldEntry(k)],
             [k \in 1..MAX_ENTRIES |->
                IF k <= NClips - VIDEOS_PER_DAY THEN k ELSE OldEntry(k)])

\* the history files the first run can find: none, an unparseable one, a
\* JSON array, an object without the "quotes" key, and OldFile
InitFiles ==
  { MissingFile, GarbageFile, NonDictFile,
    JsonObject({"videos"}, <<>>, <<1>>),
    OldFile }

InitMain ==
  /\ file \in InitFiles
  /\ pc = "idle"
  /\ env = [PEXELS_API_KEY |-> TRUE]
  /\ history = EmptyHistory
  /\ i = 1
  /\ quote = 0
  /\ video_id = 0
  /\ quotes = <<>>
  /\ video_ids = <<>>
  /\ attempt = 1
  /\ fetches = 0
  /\ searches = 0
  /\ lastResp = "none"
  /\ err = "none"
  /\ saves = 0
  /\ posted = 0

\* no call of _wrap_to_width is in progress
WrapIdle ==
  /\ text = <<>>
  /\ font = "bold"
  /\ words = <<>>
  /\ widx = 1
  /\ current = <<>>
  /\ lines = <<>>
  /\ wpc = "idle"

\* no call of post_video is in progress
PostIdle ==
  /\ access_token = "None"
  /\ open_id = "None"
  /\ client_key = "None"
  /\ chunk_count = 0
  /\ chunk_idx = 0
  /\ poll_attempt = 0
  /\ requests = 0
  /\ status = "none"
  /\ post_result = "none"
  /\ ppc = "idle"

\* no call of _make_text_overlay is in progress
LayoutIdle ==
  /\ line_heights = <<>>
  /\ author_h = 0
  /\ block_h = 0
  /\ y = 0
  /\ lidx = 1
  /\ line_ys = <<>>
  /\ author_y = 0
  /\ lpc = "idle"

\* the catalogs are not scripted
SelIdle ==
  /\ qstream = <<>>
  /\ vstream = <<>>

Init == InitMain /\ WrapIdle /\ PostIdle /\ LayoutIdle /\ SelIdle

Next ==
  \/ \E e \in Environments : StartRun(e)
  \/ \E resp \in QuoteResponses : FetchQuoteAttempt(resp)
  \/ FetchVideoNoKey
  \/ \E resp \in VideoResponses : FetchVideoAttempt(resp)
  \/ \E ok \in BOOLEAN : Compose(ok)
  \/ \E outcome \in {"sent", "skipped", "raised"} : Email(outcome)
  \/ \E outcome \in {"published", "stub", "raised"} : Post(outcome)
  \/ \E outcome \in {"ok", "open_failed", "write_failed"} : Save(outcome)

Spec == Init /\ [][Next]_vars

\* the quote texts of at most n characters
Texts(n) == UNION {[1..k -> Alphabet] : k \in 0..n}

\* _wrap_to_width is called with any text and any of the fonts
InitWrap ==
  /\ InitMain
  /\ file = MissingFile
  /\ text \in Texts(MaxTextLen)
  /\ font \in Fonts
  /\ words = split(text)
  /\ widx = 1
  /\ current = <<>>
  /\ lines = <<>>
  /\ wpc = "loop"
  /\ PostIdle
  /\ LayoutIdle
  /\ SelIdle

NextWrap == WrapWord \/ WrapReturn

SpecWrap == InitWrap /\ [][NextWrap]_vars

\* _wrap_to_width is straight-line sequential code: it keeps running
SpecWrapFair == SpecWrap /\ WF_vars(NextWrap)

\* post_video is called in any environment
InitPost ==
  /\ InitMain
  /\ file = MissingFile
  /\ WrapIdle
  /\ access_token \in EnvValues
  /\ open_id \in EnvValues
  /\ client_key \in EnvValues
  /\ chunk_count = 0
  /\ chunk_idx = 0
  /\ poll_attempt = 0
  /\ requests = 0
  /\ status = "none"
  /\ post_result = "none"
  /\ ppc = "entry"
  /\ LayoutIdle
  /\ SelIdle

NextPost ==
  \/ PostStub
  \/ \E exists \in BOOLEAN, file_size \in FileSizes :
       PostMeasure(exists, file_size)
  \/ \E resp \in InitResponses : PostInit(resp)
  \/ \E ok \in BOOLEAN : PostChunk(ok)
  \/ \E resp \in PollResponses : PostPoll(resp)

SpecPost == InitPost /\ [][NextPost]_vars

\* the overlay is laid out for any wrapped quote of at most MaxLines lines
InitLayout ==
  /\ InitMain
  /\ file = MissingFile
  /\ WrapIdle
  /\ PostIdle
  /\ SelIdle
  /\ line_heights \in UNION {[1..n -> LineHeights] : n \in 0..MaxLines}
  /\ author_h \in AuthorHeights
  /\ block_h = 0
  /\ y = 0
  /\ lidx = 1
  /\ line_ys = <<>>
  /\ author_y = 0
  /\ lpc = "geometry"

NextLayout == LayoutGeometry \/ DrawLine \/ DrawAuthor

SpecLayout == InitLayout /\ [][NextLayout]_vars

\* the history file of a run that used quote 1 and clip 1
UsedFile == JsonObject({"quotes", "videos"}, <<1>>, <<1>>)

\* scripts of n deliveries: a up to position k - 1, c at position k, d after
Streams(n, values) ==
  { [j \in 1..n |-> IF j < k THEN a ELSE IF j = k THEN c ELSE d] :
      k \in 1..n, a \in values, c \in values, d \in values }

\* a run has loaded UsedFile and calls fetch_quote, then fetch_video; the
\* catalogs deliver what the scripts say
InitSelect ==
  /\ file = UsedFile
  /\ pc = "fetch_quote"
  /\ env = [PEXELS_API_KEY |-> TRUE]
  /\ history = load(file).history
  /\ i = 1
  /\ quote = 0
  /\ video_id = 0
  /\ quotes = <<>>
  /\ video_ids = <<>>
  /\ attempt = 1
  /\ fetches = 0
  /\ searches = 0
  /\ lastResp = "none"
  /\ err = "none"
  /\ saves = 0
  /\ posted = 0
  /\ WrapIdle
  /\ PostIdle
  /\ LayoutIdle
  /\ \/ /\ qstream \in Streams(MAX_ATTEMPTS_QUOTE, QuoteContents)
        /\ vstream = [j \in 1..MAX_ATTEMPTS_VIDEO |-> ClipIds]
     \/ /\ qstream = [j \in 1..MAX_ATTEMPTS_QUOTE |-> IF j = 1 THEN 1 ELSE 2]
        /\ vstream \in Streams(MAX_ATTEMPTS_VIDEO, SUBSET ClipIds)

\* the next fetch of fetch_quote gets the next quote of the script
SelectQuote ==
  FetchQuoteAttempt([kind |-> "quote", content |-> qstream[fetches + 1]])

\* the next search of fetch_video gets the next batch of the script
SelectVideo ==
  FetchVideoAttempt([kind |-> "batch", videos |-> vstream[searches + 1]])

NextSelect == SelectQuote \/ SelectVideo

SpecSelect == InitSelect /\ [][NextSelect]_vars

(* ------------------------------ claims -------------------------------- *)
\* main() is between the return of fetch_quote and the end of compose_video
QuoteSelected == pc \in {"fetch_video", "compose"}

\* main() is inside its loop
InLoop == pc \in {"fetch_quote", "fetch_video", "compose"}

Distinct(s) == \A a, b \in 1..Len(s) : s[a] = s[b] => a = b

\* C1: when fetch_quote has returned, the returned content is not in the
\* history it was given, and when fetch_video has returned, the returned id is
\* not in that history (main changes the history only after compose_video)
C1_SelectorsReturnFresh ==
  /\ QuoteSelected => quote \notin Range(history.quotes)
  /\ pc = "compose" => video_id \notin Range(history.videos)

\* both selectors have returned in a run whose history was not empty, the
\* clip selector after a search that delivered only used clips
C1_Witness ==
  /\ pc = "compose"
  /\ history.quotes # <<>>
  /\ history.videos # <<>>
  /\ searches > 1

\* C2: a fetch that delivers an already used quote leaves fetch_quote in its
\* loop while fewer than 10 fetches were made and raises the exhaustion error
\* at the 10th; a search that delivers only used clips leaves fetch_video in
\* its loop before the 5th search and raises at the 5th; the exhaustion errors
\* are raised after exactly 10 fetches and 5 searches, and nothing is returned
C2_ExhaustionRaises ==
  /\ (fetches > 0 /\ lastResp = "collision") =>
       IF fetches < MAX_ATTEMPTS_QUOTE
       THEN pc = "fetch_quote" /\ attempt = fetches + 1
       ELSE pc = "failed" /\ err = "quote_exhausted"
  /\ (searches > 0 /\ lastResp = "collision") =>
       IF searches < MAX_ATTEMPTS_VIDEO
       THEN pc = "fetch_video" /\ attempt = searches + 1
       ELSE pc = "failed" /\ err = "video_exhausted"
  /\ err = "quote_exhausted" =>
       pc = "failed" /\ fetches = MAX_ATTEMPTS_QUOTE /\ lastResp = "collision"
  /\ err = "video_exhausted" => pc = "failed" /\ searches = MAX_ATTEMPTS_VIDEO
  /\ fetches <= MAX_ATTEMPTS_QUOTE
  /\ searches <= MAX_ATTEMPTS_VIDEO

\* fetch_video has raised the exhaustion error after a 5th all-used batch
C2_Witness ==
  /\ pc = "failed"
  /\ err = "video_exhausted"
  /\ lastResp = "collision"
  /\ searches = MAX_ATTEMPTS_VIDEO

\* C3: save is executed exactly once in a run that reaches the end of main()
\* and not at all in a run that a selection, a composition, the email step or
\* the posting step ends; the history file changes in no other step than the
\* save that follows the last post_video
C3_SaveOnlyAfterSuccess ==
  /\ [](pc = "done" => saves = 1)
  /\ []((pc = "failed" /\ err # "save") => saves = 0)
  /\ [](pc \notin {"done", "failed"} => saves = 0)
  /\ [][file' # file =>
          pc = "save" /\ pc' \in {"done", "failed"}
            /\ Len(quotes) = VIDEOS_PER_DAY /\ posted = VIDEOS_PER_DAY]_vars

\* a run has failed in the posting step, after three selections were recorded
C3_Witness == pc = "failed" /\ err = "post" /\ saves = 0

\* C4: after save, each persisted list holds exactly the last
\* min(len, MAX_ENTRIES) entries of the in-memory list in their order, no
\* persisted list is ever longer than MAX_ENTRIES, and saving again (the same
\* history, or the one a load of the file yields) writes the same content
C4_SaveKeepsNewest ==
  /\ file.kind = "dict" =>
       Len(file.quotes) <= MAX_ENTRIES /\ Len(file.videos) <= MAX_ENTRIES
  /\ pc = "done" =>
       LET nq == Min(Len(history.quotes), MAX_ENTRIES)
           nv == Min(Len(history.videos), MAX_ENTRIES)
       IN /\ file.kind = "dict"
          /\ Len(file.quotes) = nq
          /\ \A k \in 1..nq :
               file.quotes[k] = history.quotes[Len(history.quotes) - nq + k]
          /\ Len(file.videos) = nv
          /\ \A k \in 1..nv :
               file.videos[k] = history.videos[Len(history.videos) - nv + k]
          /\ save(history) = file
          /\ save(load(file).history) = file

\* a save has evicted the oldest entries of a history longer than MAX_ENTRIES
C4_Witness ==
  /\ pc = "done"
  /\ Len(history.quotes) > MAX_ENTRIES
  /\ Len(file.quotes) = MAX_ENTRIES

\* C5 (as claimed): no run is ended by load(), whatever the history file holds
C5_LoadNeverRaises == ~(pc = "failed" /\ err = "load")

\* C6 (as claimed): when composition starts, the in-memory history already
\* holds the iteration's quote and clip id
C6_RecordedBeforeCompose ==
  pc = "compose" => quote_seen(history, quote) /\ video_seen(history, video_id)

\* C6 (amended): record is executed after compose_video has returned: when
\* composition starts the history holds neither the iteration's quote nor its
\* clip id, and throughout iteration i the history ends with exactly the
\* quotes and clips of the i - 1 iterations before it, in their order
C6_RecordedAfterCompose ==
  /\ pc = "compose" =>
       quote \notin Range(history.quotes) /\ video_id \notin Range(history.videos)
  /\ InLoop =>
       /\ Len(quotes) = i - 1
       /\ Len(video_ids) = i - 1
       /\ Len(history.quotes) >= i - 1
       /\ Len(history.videos) >= i - 1
       /\ LastN(history.quotes, i - 1) = quotes
       /\ LastN(history.videos, i - 1) = video_ids

\* the second composition starts: the first iteration's picks are recorded
C6_Witness ==
  /\ pc = "compose"
  /\ i = 2
  /\ history.quotes # <<>>
  /\ history.quotes[Len(history.quotes)] = quotes[1]

\* C7: in every run the quotes used so far are pairwise distinct and all in
\* the in-memory history, a quote selected next differs from them all, and
\* the same holds of the clip ids
C7_DistinctWithinRun ==
  /\ Distinct(quotes)
  /\ Distinct(video_ids)
  /\ \A k \in 1..Len(quotes) : quote_seen(history, quotes[k])
  /\ \A k \in 1..Len(video_ids) : video_seen(history, video_ids[k])
  /\ QuoteSelected => quote \notin Range(quotes)
  /\ pc = "compose" => video_id \notin Range(video_ids)

\* all three videos of a run are composed
C7_Witness ==
  /\ pc = "email"
  /\ Len(quotes) = VIDEOS_PER_DAY
  /\ Len(video_ids) = VIDEOS_PER_DAY

\* C8: until a run saves, no quote and no clip it has selected is among the
\* entries the history file holds
C8_NoReuseWithinWindow ==
  (file.kind = "dict" /\ pc \notin {"idle", "done", "failed"}) =>
    /\ \A k \in 1..Len(quotes) : quotes[k] \notin Range(file.quotes)
    /\ \A k \in 1..Len(video_ids) : video_ids[k] \notin Range(file.videos)
    /\ QuoteSelected => quote \notin Range(file.quotes)
    /\ pc = "compose" => video_id \notin Range(file.videos)

\* a run over a full window selects a quote that OldFile held: an earlier
\* run's save has evicted it
C8_Witness ==
  /\ pc = "fetch_video"
  /\ file.kind = "dict"
  /\ Len(file.quotes) = MAX_ENTRIES
  /\ quote \in Range(OldFile.quotes)

\* C9 (as claimed): after a failed call or an unusable response of either
\* catalog the selector has raised
C9_UpstreamErrorsRaise ==
  lastResp \in {"http_error", "malformed", "empty", "no_variant", "download_error"}
    => pc = "failed"

\* C9 (amended): a failed call, a malformed payload and a failed download
\* raise at once in both selectors, and so does an empty list in fetch_quote;
\* in fetch_video an empty batch or a picked entry without video files ends
\* the attempt like a collision: another search follows, or the exhaustion
\* error after the 5th
C9_UpstreamErrorsAsCoded ==
  /\ lastResp \in {"http_error", "malformed", "download_error"} =>
       pc = "failed" /\ err \in {"quote_upstream", "video_upstream"}
  /\ (fetches > 0 /\ lastResp = "empty") =>
       pc = "failed" /\ err = "quote_upstream"
  /\ (searches > 0 /\ lastResp \in {"empty", "no_variant"}) =>
       IF searches < MAX_ATTEMPTS_VIDEO
       THEN pc = "fetch_video" /\ attempt = searches + 1
       ELSE pc = "failed" /\ err = "video_exhausted"

\* fetch_video searches again after an empty batch
C9_Witness ==
  /\ pc = "fetch_video"
  /\ lastResp = "empty"
  /\ searches > 0
  /\ searches < MAX_ATTEMPTS_VIDEO

RECURSIVE LineWords(_)
\* the words of the lines ls, read in order
LineWords(ls) ==
  IF ls = <<>> THEN <<>> ELSE split(Head(ls)) \o LineWords(Tail(ls))

\* C11: _wrap_to_width returns; the returned lines are non-empty and their
\* words, read in order, are text.split(); a word wider than max_text_w is a
\* line of its own; a text without words yields no line
C11_WrapKeepsWords ==
  /\ <>(wpc = "done")
  /\ [](wpc = "loop" => widx \in 1..(Len(words) + 1))
  /\ [](wpc = "done" =>
          /\ \A k \in 1..Len(lines) : lines[k] # <<>>
          /\ LineWords(lines) = split(text)
          /\ \A k \in 1..Len(lines) :
               \A w \in Range(split(lines[k])) :
                 Measure(font, w) > max_text_w => lines[k] = w
          /\ split(text) = <<>> => lines = <<>>)

\* a wrap has returned a word wider than max_text_w as the second of three
\* lines
C11_Witness ==
  /\ wpc = "done"
  /\ Len(lines) = 3
  /\ Measure(font, lines[2]) > max_text_w

\* C12: post_video sends requests only when all three of
\* TIKTOK_ACCESS_TOKEN, TIKTOK_OPEN_ID and TIKTOK_CLIENT_KEY are set; with
\* any of them missing it sends none and returns False; it returns True only
\* after a poll reported PUBLISH_COMPLETE
C12_FullFlowNeedsAllThree ==
  /\ requests > 0 =>
       /\ access_token # "None"
       /\ open_id # "None"
       /\ client_key # "None"
  /\ (ppc = "done" /\ "None" \in {access_token, open_id, client_key}) =>
       /\ requests = 0
       /\ post_result = "False"
  /\ post_result = "True" => status = "PUBLISH_COMPLETE"

\* C14: the drawn stack agrees with the computed block height: block_h is
\* sum(h_i) + 16*(n-1) + 28 + author_h, the first line is drawn at
\* y0 = center_y - block_h // 2 and the author line at
\* y0 + sum(h_i) + 16*(n-1) + 28, so that the stack ends at y0 + block_h,
\* with center_y = 729
C14_StackFillsBlock ==
  lpc = "done" =>
    LET n == Len(line_heights)
        y0 == center_y - block_h \div 2
    IN /\ center_y = 729
       /\ block_h = sum(line_heights) + 16 * (n - 1) + 28 + author_h
       /\ n > 0 => line_ys[1] = y0
       /\ author_y = y0 + sum(line_heights) + 16 * (n - 1) + 28
       /\ author_y + author_h = y0 + block_h

\* the history the run loaded
persisted == load(file).history

\* the positions of the scripts whose delivery does not collide
QFresh ==
  {k \in 1..MAX_ATTEMPTS_QUOTE : qstream[k] \notin Range(persisted.quotes)}

VFresh ==
  {k \in 1..MAX_ATTEMPTS_VIDEO : vstream[k] \ Range(persisted.videos) # {}}

First(S) == CHOOSE k \in S : \A j \in S : k <= j

\* fetch_quote returns the first quote that does not collide, after as many
\* fetches as its position, and fetches no more
QuoteReturnsFirstFresh ==
  QFresh # {} =>
    /\ pc = "fetch_quote" => fetches < First(QFresh)
    /\ (pc # "fetch_quote" /\ searches = 0) =>
         /\ pc = "fetch_video"
         /\ fetches = First(QFresh)
         /\ quote = qstream[First(QFresh)]

\* C13: if the k-th delivery is the first that does not collide with the
\* history, the selector returns it after exactly k fetches and fetches no
\* more (original statement: for quotes and for clip batches alike)
C13_ReturnsAfterFirstFresh ==
  /\ QuoteReturnsFirstFresh
  /\ VFresh # {} =>
       /\ searches <= First(VFresh)
       /\ searches = First(VFresh) =>
            /\ pc = "compose"
            /\ video_id \in vstream[First(VFresh)] \ Range(persisted.videos)

\* C13 (amended): fetch_quote returns the first quote that does not collide
\* after exactly as many fetches as its position; fetch_video picks an entry
\* from the first batch that holds one that does not collide, and returns it
\* after exactly k searches when the entry carries a video file and the
\* download succeeds; an entry without video files spends the attempt and the
\* search goes on, a failed download is raised; what is returned never
\* collides and comes from the batch of the last search
C13_ReturnsFreshPick ==
  /\ QuoteReturnsFirstFresh
  /\ QFresh = {} => pc \in {"fetch_quote", "failed"}
  /\ VFresh = {} => pc # "compose"
  /\ pc = "compose" =>
       /\ lastResp = "fresh"
       /\ searches \in VFresh
       /\ video_id \in vstream[searches] \ Range(persisted.videos)
  /\ VFresh # {} =>
       LET k == First(VFresh) IN
         /\ (0 < searches /\ searches < k) =>
              /\ pc = "fetch_video"
              /\ lastResp \in {"empty", "collision"}
         /\ searches = k =>
              /\ lastResp \in {"fresh", "no_variant", "download_error"}
              /\ lastResp = "fresh" => pc = "compose"
              /\ lastResp = "download_error" =>
                   pc = "failed" /\ err = "video_upstream"
              /\ lastResp = "no_variant" =>
                   IF k < MAX_ATTEMPTS_VIDEO
                   THEN pc = "fetch_video"
                   ELSE pc = "failed" /\ err = "video_exhausted"

\* quote 1 and clip 1 are in the history; the catalog delivered quote 1, then
\* quote 2, and the batch {1}, then the batch {1, 2}: quote 2 and clip 2 have
\* been returned, the clip after two searches
C13_Witness ==
  /\ pc = "compose"
  /\ qstream[1] = 1
  /\ qstream[2] = 2
  /\ quote = 2
  /\ vstream[1] = {1}
  /\ vstream[2] = {1, 2}
  /\ searches = 2
  /\ video_id = 2

====
